---- MODULE Spec2Model ----
(***************************************************************************)
(* Model of qba73/habit: the Habit streak state machine and the FileStore  *)
(* that keeps one Habit per name (src/habit.go, second package body,       *)
(* lines 369-660).                                                         *)
(*                                                                         *)
(* An instant (time.Time) is a natural number of ticks; a UTC calendar day *)
(* is TicksPerDay ticks long.  Now is the package variable `Now`: a clock  *)
(* that tests replace by a fixed function and that is time.Now otherwise,  *)
(* so that two reads of it inside one call may differ.                     *)
(*                                                                         *)
(* Spec      the Habit API (New, Start, Check, Record) on one habit, the   *)
(*           clock taking any value between the calls.                     *)
(* StoreSpec a FileStore (NewFileStore, Log, Add, Save) on a file that     *)
(*           others write too, and Check(store), the clock being time.Now. *)
(* ReadSpec  FileStore.Get and GetAll on a store opened by NewFileStore    *)
(*           and filled by Log, the clock being time.Now.                  *)
(* LogSpec   FileStore.Log alone, the clock being time.Now, with the       *)
(*           history of the days on which each habit was logged.           *)
(* RecordSpec Record(store, name) and FileStore.Log on a store opened by   *)
(*           NewFileStore, with writes that fail.                          *)
(* CLISpec   the command (runCLI) run again and again on a file that       *)
(*           others write too.                                             *)
(* UseSpec   every operation on one open store, in any order.              *)
(* LockSpec  one FileStore shared by goroutines that take its lock.        *)
(* RaceSpec  two processes that run the command on the same file at the    *)
(*           same time.                                                    *)
(* DiffSpec  the Habit API and DayDiff on any two instants.                *)
(* NameSpec  FileStore.Add called with any Habit value, and Log.           *)
(* KeySpec   a FileStore opened from any JSON object of habits, and Log.   *)
(* ClockSpec FileStore.Log under a clock that is set to any instant, with  *)
(*           the history of the days.                                      *)
(* LogsSpec  goroutines that each call Log once on a shared FileStore.     *)
(* CallsSpec goroutines that each call one method once on a shared         *)
(*           FileStore, scheduled fairly.                                  *)
(***************************************************************************)
EXTENDS Integers, Sequences, FiniteSets

VARIABLES
    now,      \* the instant the clock `Now` returns when read next
    habit,    \* a Habit value held by a caller of the Habit API
    ret,      \* the last call: the operation, its argument, the clock (at) and the
              \* receiver (recv) when it was entered, and what it returned, or
              \* that it panicked; io is what became of its reads and writes
              \* of the file, for a call that makes several
    Data,     \* FileStore.Data: the in-memory collection, name -> Habit
    nilData,  \* whether FileStore.Data is the nil map (no entries, not assignable)
    file,     \* the backing file at FileStore.Path: <<>> when there is none, else
              \* <<content>>
    logged,   \* history: for each name the days on which FileStore.Log(name) was called
    mu,       \* FileStore.mu, the sync.RWMutex: whether it is locked for writing and
              \* how many hold it for reading
    cs,       \* for each goroutine the FileStore method whose critical section it
              \* is in, "" when it is in none
    peer,     \* for each of the processes that run the program on one path its
              \* FileStore: <<>> before it has opened one, else <<store>>
    wr,       \* for each of these processes where it is in its run, and inside
              \* os.WriteFile the bytes it has still to write to the file it has
              \* opened (and truncated)
    run       \* for each goroutine that makes one call on the shared FileStore:
              \* where it is in the call (pc), the method and its argument, the
              \* method whose lock it takes next or holds (sect), Log's local h
              \* and the clock readings that made it, and what the call returned

\* the state of goroutines and of processes that run side by side, which calls
\* made one after the other by one process leave alone
others == <<mu, cs, peer, wr, run>>

vars == <<now, habit, ret, Data, nilData, file, logged, others>>

----------------------------------------------------------------------------
(* Bounds of the model *)

MaxDay == 3         \* calendar days are 0..MaxDay
TicksPerDay == 2    \* resolution of the clock within a day
MaxStreak == 4      \* a call that would raise Streak above this is not taken
MaxElapsed == 1     \* ticks that can pass between two clock reads of one call

Names == {"jog", "read"}
Instants == 0..((MaxDay + 1) * TicksPerDay - 1)

\* the instants the clock can show at a later read of the same call
Elapsed(t) == {u \in Instants : t <= u /\ u <= t + MaxElapsed}

----------------------------------------------------------------------------
(* Messages: the result of fmt.Sprintf is determined by the format and its *)
(* arguments; n is the %d argument (0 for a format without one).           *)

EmptyMsg == [fmt |-> "", name |-> "", n |-> 0]
MsgStart(name) ==
    [fmt |-> "Good luck with your new habit '%s'. Don't forget to do it tomorrow.\n",
     name |-> name, n |-> 0]
MsgOnStreak(n, name) ==
    [fmt |-> "You're currently on a %d-day streak for '%s'. Stick to it!\n",
     name |-> name, n |-> n]
MsgItsBeen(n, name) ==
    [fmt |-> "It's been %d days since you did '%s'. It's ok, life happens. Get back on that horse today!\n",
     name |-> name, n |-> n]
MsgNewStreak(name, n) ==
    [fmt |-> "You last did the habit '%s' %d days ago, so you're starting a new streak today. Good luck!\n",
     name |-> name, n |-> n]
MsgInARow(name, n) ==
    [fmt |-> "Nice work: you've done the habit '%s' for %d days in a row now. Keep it up!\n",
     name |-> name, n |-> n]

----------------------------------------------------------------------------
(* Habit: the streak state machine *)

\* Habit{}: the zero value of the struct
ZeroHabit == [Name |-> "", Date |-> 0, Streak |-> 0]

Abs(x) == IF x < 0 THEN -x ELSE x

\* t.UTC().Truncate(24 * time.Hour)
RoundDateToDay(t) == (t \div TicksPerDay) * TicksPerDay

\* variant of DayDiff that keeps the sign of the difference
DayDiffSigned(start, stop) ==
    (RoundDateToDay(stop) - RoundDateToDay(start)) \div TicksPerDay

\* int(math.Abs(stop.Sub(start).Hours()) / 24)
DayDiff(start, stop) ==
    Abs(RoundDateToDay(stop) - RoundDateToDay(start)) \div TicksPerDay

\* variant of New that accepts the empty name
NewAcceptingEmptyName(name, t) ==
    [h |-> [Name |-> name, Date |-> RoundDateToDay(t), Streak |-> 1],
     err |-> FALSE]

\* New(name), the clock reading t
New(name, t) ==
    IF name = ""
    THEN [h |-> ZeroHabit, err |-> TRUE]
    ELSE [h |-> [Name |-> name, Date |-> RoundDateToDay(t), Streak |-> 1],
          err |-> FALSE]

\* variant of setDay that stores the instant as it is, time of day included
setDayUntruncated(h, t) == [h EXCEPT !.Date = t]

setDay(h, t) == [h EXCEPT !.Date = RoundDateToDay(t)]
\* variant of resetStreak that restarts the count at 0
resetStreakToZero(h) == [h EXCEPT !.Streak = 0]

resetStreak(h) == [h EXCEPT !.Streak = 1]
incStreak(h) == [h EXCEPT !.Streak = @ + 1]

\* variant of startNewStreak that moves the day and keeps the count
startNewStreakKeepingCount(h, t) == setDay(h, t)

\* t is what Now() returns inside the call
startNewStreak(h, t) == resetStreak(setDay(h, t))
\* variant of continueStreak that moves the day and restarts the count
continueStreakResetting(h, t) == resetStreak(setDay(h, t))

continueStreak(h, t) == incStreak(setDay(h, t))
checkStreak(h, t) == DayDiff(h.Date, t)

\* variant of Start that restarts only a habit whose streak is broken
HabitStartOnlyIfBroken(h, t) ==
    LET g == IF checkStreak(h, t) > 1 THEN startNewStreak(h, t) ELSE h
    IN  [h |-> g, msg |-> MsgStart(g.Name)]

\* (h *Habit) Start(): h is the receiver after the call
HabitStart(h, t) ==
    LET g == startNewStreak(h, t)
    IN  [h |-> g, msg |-> MsgStart(g.Name)]

\* variant of Check that restarts a broken streak
HabitCheckRestarting(h, t) ==
    LET diff == checkStreak(h, t)
    IN  IF diff = 0 \/ diff = 1
        THEN [h |-> h, val |-> diff, msg |-> MsgOnStreak(h.Streak, h.Name)]
        ELSE [h |-> startNewStreak(h, t), val |-> diff,
              msg |-> MsgItsBeen(diff, h.Name)]

\* variant of Check whose streak message carries the day distance
HabitCheckReportingDiff(h, t) ==
    LET diff == checkStreak(h, t)
    IN  IF diff = 0 \/ diff = 1
        THEN [h |-> h, val |-> diff, msg |-> MsgOnStreak(diff, h.Name)]
        ELSE [h |-> h, val |-> diff, msg |-> MsgItsBeen(diff, h.Name)]

\* (h *Habit) Check(): h is the receiver after the call
HabitCheck(h, t) ==
    LET diff == checkStreak(h, t)
    IN  IF diff = 0 \/ diff = 1
        THEN [h |-> h, val |-> diff, msg |-> MsgOnStreak(h.Streak, h.Name)]
        ELSE [h |-> h, val |-> diff, msg |-> MsgItsBeen(diff, h.Name)]

\* variant of Record without the same-day branch
HabitRecordWithoutSameDay(h, t1, t2) ==
    LET diff == checkStreak(h, t1)
    IN  IF diff > 1
        THEN LET g == startNewStreak(h, t2)
             IN  [h |-> g, val |-> g.Streak, msg |-> MsgNewStreak(g.Name, diff)]
        ELSE LET g == continueStreak(h, t2)
             IN  [h |-> g, val |-> g.Streak, msg |-> MsgInARow(g.Name, g.Streak)]

\* (h *Habit) Record(): t1 is the clock read by checkStreak, t2 the clock read
\* by startNewStreak or continueStreak
HabitRecord(h, t1, t2) ==
    LET diff == checkStreak(h, t1)
    IN  IF diff = 0
        THEN [h |-> h, val |-> h.Streak, msg |-> EmptyMsg]
        ELSE IF diff > 1
        THEN LET g == startNewStreak(h, t2)
             IN  [h |-> g, val |-> g.Streak, msg |-> MsgNewStreak(g.Name, diff)]
        ELSE LET g == continueStreak(h, t2)
             IN  [h |-> g, val |-> g.Streak, msg |-> MsgInARow(g.Name, g.Streak)]

----------------------------------------------------------------------------
(* Calls of the Habit API on a habit held by the caller.  The methods are   *)
(* called on a habit that New has returned without error.                  *)

NoCall ==
    [op |-> "none", arg |-> "", at |-> 0, recv |-> ZeroHabit,
     val |-> 0, msg |-> EmptyMsg, err |-> FALSE, out |-> <<>>, seen |-> <<>>,
     panic |-> FALSE, io |-> <<>>]

\* the record of a call of a Habit method or of New
HabitCall(op, arg, at, recv, val, msg, err) ==
    [op |-> op, arg |-> arg, at |-> at, recv |-> recv,
     val |-> val, msg |-> msg, err |-> err, out |-> <<>>, seen |-> <<>>,
     panic |-> FALSE, io |-> <<>>]

NoFile == <<>>
EmptyData == [x \in {} |-> ZeroHabit]
NoDays == [x \in Names |-> {}]

\* sync.RWMutex, its zero value
Unlocked == [writer |-> FALSE, readers |-> 0]

\* the goroutines that call methods of one FileStore, and the processes that
\* have a FileStore on one path
Goroutines == {"g1", "g2", "g3"}
Processes == {"p1", "p2"}

\* a goroutine that has made no call
NotCalled ==
    [pc |-> "idle", method |-> "", sect |-> "", name |-> "", h |-> ZeroHabit,
     at |-> 0, t2 |-> 0, msg |-> EmptyMsg, err |-> FALSE, out |-> <<>>]

Init ==
    /\ now \in Instants
    /\ habit = ZeroHabit
    /\ ret = NoCall
    /\ Data = EmptyData
    /\ nilData = FALSE
    /\ file = NoFile
    /\ logged = NoDays
    /\ mu = Unlocked
    /\ cs = [g \in Goroutines |-> ""]
    /\ peer = [p \in Processes |-> <<>>]
    /\ wr = [p \in Processes |-> [pc |-> "idle", bytes |-> <<>>]]
    /\ run = [g \in Goroutines |-> NotCalled]

\* the clock is replaced or moves: habit.Now = func() time.Time { return t }
SetNow ==
    \E t \in Instants :
        /\ t # now
        /\ now' = t
        /\ ret' = NoCall
        /\ UNCHANGED <<habit, Data, nilData, file, logged, others>>

\* h, err := New(name)
CallNew ==
    \E name \in Names \cup {""} :
        LET r == New(name, now)
        IN  /\ habit' = r.h
            /\ ret' = HabitCall("New", name, now, ZeroHabit, 0, EmptyMsg, r.err)
            /\ UNCHANGED <<now, Data, nilData, file, logged, others>>

\* msg := h.Start()
CallStart ==
    /\ habit.Name # ""
    /\ LET r == HabitStart(habit, now)
       IN  /\ habit' = r.h
           /\ ret' = HabitCall("Start", habit.Name, now, habit, 0, r.msg, FALSE)
    /\ UNCHANGED <<now, Data, nilData, file, logged, others>>

\* n, msg := h.Check()
CallCheck ==
    /\ habit.Name # ""
    /\ LET r == HabitCheck(habit, now)
       IN  /\ habit' = r.h
           /\ ret' = HabitCall("Check", habit.Name, now, habit, r.val, r.msg, FALSE)
    /\ UNCHANGED <<now, Data, nilData, file, logged, others>>

\* n, msg := h.Record()
CallRecord ==
    /\ habit.Name # ""
    /\ \E t2 \in Elapsed(now) :
        LET r == HabitRecord(habit, now, t2)
        IN  /\ r.h.Streak <= MaxStreak
            /\ habit' = r.h
            /\ now' = t2
            /\ ret' = HabitCall("Record", habit.Name, now, habit, r.val, r.msg, FALSE)
    /\ UNCHANGED <<Data, nilData, file, logged, others>>

Next ==
    \/ SetNow
    \/ CallNew
    \/ CallStart
    \/ CallCheck
    \/ CallRecord

Spec == Init /\ [][Next]_vars

\* n := DayDiff(start, stop), stop the reading of the clock
CallDayDiff ==
    \E start \in Instants :
        /\ ret' = HabitCall("DayDiff", "", start, habit,
                            DayDiff(start, now), EmptyMsg, FALSE)
        /\ UNCHANGED <<now, habit, Data, nilData, file, logged, others>>

DiffNext ==
    \/ SetNow
    \/ CallNew
    \/ CallCheck
    \/ CallRecord
    \/ CallDayDiff

DiffSpec == Init /\ [][DiffNext]_vars

----------------------------------------------------------------------------
(* FileStore: the collection of habits and its backing file *)

MsgNotTracking ==
    [fmt |-> "You are not tracking any habit yet.\n", name |-> "", n |-> 0]

\* the order of Go's < on the names of the model
NameRank(name) ==
    CASE name = "" -> 0
      [] name = "jog" -> 1
      [] name = "read" -> 2
NameLess(a, b) == NameRank(a) < NameRank(b)

\* time.Time.MarshalJSON and UnmarshalJSON: the RFC 3339 text of an instant is
\* its calendar date and its time of day
MarshalTime(t) == [date |-> t \div TicksPerDay, clock |-> t % TicksPerDay]
UnmarshalTime(text) == text.date * TicksPerDay + text.clock

\* a Habit whose Streak field is not encoded
MarshalHabitWithoutStreak(h) ==
    [name |-> h.Name, date |-> MarshalTime(h.Date), streak |-> 0]

\* json.Marshal and json.Unmarshal of a Habit, by its field tags
MarshalHabit(h) ==
    [name |-> h.Name, date |-> MarshalTime(h.Date), streak |-> h.Streak]
UnmarshalHabit(m) ==
    [Name |-> m.name, Date |-> UnmarshalTime(m.date), Streak |-> m.streak]

\* the bytes of a file: the kind of JSON text they are and, for an object,
\* its members
NoMembers == [k \in {} |-> MarshalHabit(ZeroHabit)]
JSONObject(members) == [json |-> "{...}", members |-> members]
JSONNull == [json |-> "null", members |-> NoMembers]
JSONArray == [json |-> "[]", members |-> NoMembers]
InvalidData == [json |-> "invalid data", members |-> NoMembers]
NoBytes == [json |-> "", members |-> NoMembers]

\* json.Marshal(f.Data): null for the nil map, else an object with one member
\* per key ({} for the empty map)
ToJSON(data, isNil) ==
    IF isNil
    THEN JSONNull
    ELSE JSONObject([k \in DOMAIN data |-> MarshalHabit(data[k])])

\* a decoder that takes what it cannot parse for the empty collection
FromJSONIgnoringErrors(bytes) ==
    IF bytes.json = "{...}"
    THEN [data |-> [k \in DOMAIN bytes.members |->
                       UnmarshalHabit(bytes.members[k])],
          isNil |-> FALSE, err |-> FALSE]
    ELSE [data |-> EmptyData, isNil |-> bytes.json = "null", err |-> FALSE]

\* json.Unmarshal(data, &hx) into the empty map hx: null sets hx to nil, an
\* object fills it, anything else is an error
FromJSON(bytes) ==
    CASE bytes.json = "{...}" ->
             [data |-> [k \in DOMAIN bytes.members |->
                           UnmarshalHabit(bytes.members[k])],
              isNil |-> FALSE, err |-> FALSE]
      [] bytes.json = "null" ->
             [data |-> EmptyData, isNil |-> TRUE, err |-> FALSE]
      [] OTHER ->
             [data |-> EmptyData, isNil |-> FALSE, err |-> TRUE]

\* the bytes of a file whose writing stopped before the end of the text
TornBytes == [json |-> "{..", members |-> NoMembers]

\* what can become of os.WriteFile(f.Path, data, 0o600): the file is opened
\* with O_TRUNC and the bytes are then written to it, and either step can fail
WriteOutcomes == {"written", "not opened", "truncated", "torn"}

\* (f *FileStore) Save(): file is the file at f.Path, io the outcome of the
\* write (a failing os.MkdirAll leaves the file unopened as well)
Save(data, isNil, f, io) ==
    CASE io = "written" -> [file |-> <<ToJSON(data, isNil)>>, err |-> FALSE]
      [] io = "not opened" -> [file |-> f, err |-> TRUE]
      [] io = "truncated" -> [file |-> <<NoBytes>>, err |-> TRUE]
      [] io = "torn" -> [file |-> <<TornBytes>>, err |-> TRUE]

\* a *FileStore, by its Data field
Store(data, isNil) == [Data |-> data, nilData |-> isNil]

\* opening that needs the file to be there, as OpenFileStore does
NewFileStoreRequiringFile(f, readFails) ==
    IF f = NoFile \/ readFails
    THEN [store |-> <<>>, err |-> TRUE]
    ELSE IF f[1] = NoBytes
    THEN [store |-> <<Store(EmptyData, FALSE)>>, err |-> FALSE]
    ELSE LET u == FromJSON(f[1])
         IN  IF u.err
             THEN [store |-> <<>>, err |-> TRUE]
             ELSE [store |-> <<Store(u.data, u.isNil)>>, err |-> FALSE]

\* opening that hands the bytes of the file to the decoder whatever their
\* length
NewFileStoreDecodingAlways(f, readFails) ==
    IF f = NoFile
    THEN [store |-> <<Store(EmptyData, FALSE)>>, err |-> FALSE]
    ELSE IF readFails
    THEN [store |-> <<>>, err |-> TRUE]
    ELSE LET u == FromJSON(f[1])
         IN  IF u.err
             THEN [store |-> <<>>, err |-> TRUE]
             ELSE [store |-> <<Store(u.data, u.isNil)>>, err |-> FALSE]

\* NewFileStore(path): f is the file at path, readFails whether os.ReadFile
\* fails on it; store is <<>> for the nil pointer
NewFileStore(f, readFails) ==
    IF f = NoFile
    THEN [store |-> <<Store(EmptyData, FALSE)>>, err |-> FALSE]
    ELSE IF readFails
    THEN [store |-> <<>>, err |-> TRUE]
    ELSE IF f[1] = NoBytes
    THEN [store |-> <<Store(EmptyData, FALSE)>>, err |-> FALSE]
    ELSE LET u == FromJSON(f[1])
         IN  IF u.err
             THEN [store |-> <<>>, err |-> TRUE]
             ELSE [store |-> <<Store(u.data, u.isNil)>>, err |-> FALSE]

\* a Get that returns the zero Habit for a name that is not there, as if it
\* were stored
GetWithoutNotFound(data, habitName) ==
    IF habitName \in DOMAIN data
    THEN [h |-> data[habitName], ok |-> TRUE]
    ELSE [h |-> ZeroHabit, ok |-> TRUE]

\* (f *FileStore) Get(habitName): the habit and whether it is there
Get(data, habitName) ==
    IF habitName \in DOMAIN data
    THEN [h |-> data[habitName], ok |-> TRUE]
    ELSE [h |-> ZeroHabit, ok |-> FALSE]

\* an Add that makes a new map for the habit
AddReplacingAll(data, isNil, h) ==
    IF isNil
    THEN [data |-> data, panic |-> TRUE]
    ELSE [data |-> [k \in {h.Name} |-> h], panic |-> FALSE]

\* (f *FileStore) Add(habit): f.Data[habit.Name] = habit, which panics
\* ("assignment to entry in nil map") when f.Data is nil
Add(data, isNil, h) ==
    IF isNil
    THEN [data |-> data, panic |-> TRUE]
    ELSE [data |-> [k \in DOMAIN data \cup {h.Name} |->
                       IF k = h.Name THEN h ELSE data[k]],
          panic |-> FALSE]

\* the values sorted with the comparison turned round
RECURSIVE SortedValuesDescending(_, _)
SortedValuesDescending(data, keys) ==
    IF keys = {}
    THEN <<>>
    ELSE LET k == CHOOSE x \in keys :
                      \A y \in keys : ~NameLess(data[x].Name, data[y].Name)
         IN  <<data[k]>> \o SortedValuesDescending(data, keys \ {k})

\* maps.Values(f.Data) sorted by sort.Slice on Name
RECURSIVE SortedValues(_, _)
SortedValues(data, keys) ==
    IF keys = {}
    THEN <<>>
    ELSE LET k == CHOOSE x \in keys :
                      \A y \in keys : ~NameLess(data[y].Name, data[x].Name)
         IN  <<data[k]>> \o SortedValues(data, keys \ {k})

\* (f *FileStore) GetAll()
GetAll(data) == SortedValues(data, DOMAIN data)

\* a Log that starts the habit anew whether it is stored or not
LogStartingAlways(data, isNil, habitName, t1, t2) ==
    LET c == New(habitName, t1)
    IN  IF c.err
        THEN [data |-> data, msg |-> EmptyMsg, err |-> TRUE, panic |-> FALSE]
        ELSE LET s == HabitStart(c.h, t2)
                 a == Add(data, isNil, s.h)
             IN  [data |-> a.data,
                  msg |-> IF a.panic THEN EmptyMsg ELSE s.msg,
                  err |-> FALSE, panic |-> a.panic]

\* (f *FileStore) Log(habitName): t1 is the first clock read of the call (by New
\* or by checkStreak), t2 the second (by Start, startNewStreak or continueStreak)
Log(data, isNil, habitName, t1, t2) ==
    LET g == Get(data, habitName)
    IN  IF ~g.ok
        THEN LET c == New(habitName, t1)
             IN  IF c.err
                 THEN [data |-> data, msg |-> EmptyMsg, err |-> TRUE,
                       panic |-> FALSE]
                 ELSE LET s == HabitStart(c.h, t2)
                          a == Add(data, isNil, s.h)
                      IN  [data |-> a.data,
                           msg |-> IF a.panic THEN EmptyMsg ELSE s.msg,
                           err |-> FALSE, panic |-> a.panic]
        ELSE LET r == HabitRecord(g.h, t1, t2)
                 a == Add(data, isNil, r.h)
             IN  [data |-> a.data,
                  msg |-> IF a.panic THEN EmptyMsg ELSE r.msg,
                  err |-> FALSE, panic |-> a.panic]

\* a Check that returns from inside the loop, with the message of the first
\* habit
CheckStoppingAtFirst(data, ts) ==
    LET habits == GetAll(data)
    IN  IF Len(habits) = 0
        THEN [out |-> <<MsgNotTracking>>, seen |-> <<>>]
        ELSE [out |-> <<HabitCheck(habits[1], ts[1]).msg>>,
              seen |-> <<HabitCheck(habits[1], ts[1]).h>>]

\* Check(s Store): ts[i] is the clock read by the i-th call of Habit.Check; out
\* is the messages written to the strings.Builder, seen[i] the loop variable
\* `habit` after its Check
Check(data, ts) ==
    LET habits == GetAll(data)
    IN  IF Len(habits) = 0
        THEN [out |-> <<MsgNotTracking>>, seen |-> <<>>]
        ELSE [out |-> [i \in 1..Len(habits) |-> HabitCheck(habits[i], ts[i]).msg],
              seen |-> [i \in 1..Len(habits) |-> HabitCheck(habits[i], ts[i]).h]]

\* a Record that does not look at the error of Log before it saves
RecordIgnoringLogError(data, isNil, f, habitName, t1, t2, io) ==
    LET l == Log(data, isNil, habitName, t1, t2)
        sv == Save(l.data, isNil, f, io)
    IN  IF l.panic
        THEN [data |-> l.data, file |-> f, msg |-> EmptyMsg, err |-> FALSE,
              panic |-> TRUE]
        ELSE [data |-> l.data, file |-> sv.file,
              msg |-> IF l.err \/ sv.err THEN EmptyMsg ELSE l.msg,
              err |-> l.err \/ sv.err, panic |-> FALSE]

\* a Record that does not save when Log has nothing to say
RecordSavingOnMessage(data, isNil, f, habitName, t1, t2, io) ==
    LET l == Log(data, isNil, habitName, t1, t2)
        sv == Save(l.data, isNil, f, io)
    IN  IF l.panic
        THEN [data |-> l.data, file |-> f, msg |-> EmptyMsg, err |-> FALSE,
              panic |-> TRUE]
        ELSE IF l.err
        THEN [data |-> l.data, file |-> f, msg |-> EmptyMsg, err |-> TRUE,
              panic |-> FALSE]
        ELSE IF l.msg = EmptyMsg
        THEN [data |-> l.data, file |-> f, msg |-> l.msg, err |-> FALSE,
              panic |-> FALSE]
        ELSE [data |-> l.data, file |-> sv.file,
              msg |-> IF sv.err THEN EmptyMsg ELSE l.msg,
              err |-> sv.err, panic |-> FALSE]

\* Record(s Store, habitName): t1 and t2 are the clock reads of Log, io the
\* outcome of the write of Save
Record(data, isNil, f, habitName, t1, t2, io) ==
    LET l == Log(data, isNil, habitName, t1, t2)
        sv == Save(l.data, isNil, f, io)
    IN  IF l.panic
        THEN [data |-> l.data, file |-> f, msg |-> EmptyMsg, err |-> FALSE,
              panic |-> TRUE]
        ELSE IF l.err
        THEN [data |-> l.data, file |-> f, msg |-> EmptyMsg, err |-> TRUE,
              panic |-> FALSE]
        ELSE [data |-> l.data, file |-> sv.file,
              msg |-> IF sv.err THEN EmptyMsg ELSE l.msg,
              err |-> sv.err, panic |-> FALSE]

\* whether Record(s, habitName) gets as far as the write of Save
RecordSaves(data, isNil, habitName) ==
    LET l == Log(data, isNil, habitName, 0, 0)
    IN  ~l.panic /\ ~l.err

\* runCLI(wr, ew): args is fset.Args(), f the file of the store, ts the clock
\* reads, io the outcome of the write; code is the value returned (2 is the exit
\* status of a program that panics), stdout what is printed to wr and stderr
\* whether something is printed to ew
runCLI(f, args, readFails, ts, io) ==
    LET o == NewFileStore(f, readFails)
    IN  IF o.err
        THEN [code |-> 1, stdout |-> <<>>, stderr |-> TRUE, file |-> f,
              panic |-> FALSE]
        ELSE IF Len(args) = 0
        THEN [code |-> 0, stdout |-> Check(o.store[1].Data, ts).out,
              stderr |-> FALSE, file |-> f, panic |-> FALSE]
        ELSE LET r == Record(o.store[1].Data, o.store[1].nilData, f, args[1],
                             ts[1], ts[2], io)
             IN  IF r.panic
                 THEN [code |-> 2, stdout |-> <<>>, stderr |-> TRUE,
                       file |-> r.file, panic |-> TRUE]
                 ELSE IF r.err
                 THEN [code |-> 1, stdout |-> <<>>, stderr |-> TRUE,
                       file |-> r.file, panic |-> FALSE]
                 ELSE [code |-> 0, stdout |-> <<r.msg>>, stderr |-> FALSE,
                       file |-> r.file, panic |-> FALSE]

\* the record of a call of a store operation
StoreCall(op, arg, at, msg, err, out, seen) ==
    [op |-> op, arg |-> arg, at |-> at, recv |-> ZeroHabit,
     val |-> 0, msg |-> msg, err |-> err, out |-> out, seen |-> seen,
     panic |-> FALSE, io |-> <<>>]

\* the clock reads of a loop of n calls: they never go back
ClockReads(n) ==
    {ts \in [1..n -> Elapsed(now)] :
        /\ n >= 1 => ts[1] = now
        /\ \A i \in 1..n : \A j \in i..n : ts[i] <= ts[j]}

Day(t) == t \div TicksPerDay

\* time passes: the clock is time.Now
AdvanceNow ==
    \E t \in Instants :
        /\ t > now
        /\ now' = t
        /\ ret' = NoCall
        /\ UNCHANGED <<habit, Data, nilData, file, logged, others>>

\* the call f.Log(habitName) has panicked
Panicked(call) == [call EXCEPT !.panic = TRUE]

\* the assignments of msg, err := f.Log(habitName)
LogStep(habitName, t2) ==
    \E r \in {Log(Data, nilData, habitName, now, t2)} :
        LET call == StoreCall("FileStore.Log", habitName, now, r.msg, r.err, <<>>, <<>>)
        IN  /\ \A k \in DOMAIN r.data : r.data[k].Streak <= MaxStreak
            /\ Data' = r.data
            /\ now' = t2
            /\ ret' = IF r.panic THEN Panicked(call) ELSE call

\* msg, err := f.Log(habitName)
CallLog ==
    \E habitName \in Names \cup {""}, t2 \in Elapsed(now) :
        /\ LogStep(habitName, t2)
        /\ UNCHANGED <<habit, nilData, file, logged, others>>

\* err := f.Save(): arg tells what became of the write
CallSave ==
    \E io \in WriteOutcomes :
        LET r == Save(Data, nilData, file, io)
        IN  /\ file' = r.file
            /\ ret' = StoreCall("FileStore.Save", io, now, EmptyMsg, r.err, <<>>, <<>>)
            /\ UNCHANGED <<now, habit, Data, nilData, logged, others>>

\* out := Check(f)
CallCheckStore ==
    \E ts \in ClockReads(Cardinality(DOMAIN Data)) :
      \E r \in {Check(Data, ts)} :
        LET n == Len(r.seen)
        IN  /\ now' = IF n = 0 THEN now ELSE ts[n]
            /\ ret' = StoreCall("habit.Check", "", now, EmptyMsg, FALSE, r.out, r.seen)
            /\ UNCHANGED <<habit, Data, nilData, file, logged, others>>

\* store, err := NewFileStore(path): arg tells whether the file at path could
\* be read; the caller keeps the store it had when none is returned
CallNewFileStore ==
    \E readFails \in IF file = NoFile THEN {FALSE} ELSE BOOLEAN :
        LET r == NewFileStore(file, readFails)
            path == IF readFails THEN "unreadable" ELSE "readable"
        IN  /\ Data' = IF r.err THEN Data ELSE r.store[1].Data
            /\ nilData' = IF r.err THEN nilData ELSE r.store[1].nilData
            /\ ret' = StoreCall("NewFileStore", path, now, EmptyMsg, r.err, r.store, <<>>)
            /\ UNCHANGED <<now, habit, file, logged, others>>

\* the file is written by someone else: os.WriteFile(path, []byte("invalid data"), 0o600)
WriteFile ==
    \E bytes \in {InvalidData, JSONArray, JSONNull, NoBytes} :
        /\ file # <<bytes>>
        /\ file' = <<bytes>>
        /\ ret' = NoCall
        /\ UNCHANGED <<now, habit, Data, nilData, logged, others>>

\* the habits a caller passes to Add: those that New has just returned
AddedHabits == {New(n, now).h : n \in Names}

\* an Add that also writes the collection to the file
CallAddSaving ==
    \E h \in AddedHabits :
        LET a == Add(Data, nilData, h)
            call == [StoreCall("FileStore.Add", h.Name, now, EmptyMsg, FALSE, <<>>, <<>>)
                        EXCEPT !.recv = h]
        IN  /\ Data' = a.data
            /\ file' = IF a.panic THEN file ELSE <<ToJSON(a.data, nilData)>>
            /\ ret' = IF a.panic THEN Panicked(call) ELSE call
            /\ UNCHANGED <<now, habit, nilData, logged, others>>

\* f.Add(h)
CallAdd ==
    \E h \in AddedHabits :
        LET a == Add(Data, nilData, h)
            call == [StoreCall("FileStore.Add", h.Name, now, EmptyMsg, FALSE, <<>>, <<>>)
                        EXCEPT !.recv = h]
        IN  /\ Data' = a.data
            /\ ret' = IF a.panic THEN Panicked(call) ELSE call
            /\ UNCHANGED <<now, habit, nilData, file, logged, others>>

\* h, ok := f.Get(habitName): err is the not-found result
CallGet ==
    \E habitName \in Names \cup {""} :
        LET g == Get(Data, habitName)
        IN  /\ ret' = StoreCall("FileStore.Get", habitName, now, EmptyMsg, ~g.ok, <<g.h>>, <<>>)
            /\ UNCHANGED <<now, habit, Data, nilData, file, logged, others>>

\* hx := f.GetAll()
CallGetAll ==
    /\ ret' = StoreCall("FileStore.GetAll", "", now, EmptyMsg, FALSE, GetAll(Data), <<>>)
    /\ UNCHANGED <<now, habit, Data, nilData, file, logged, others>>

StoreNext ==
    \/ AdvanceNow
    \/ CallNewFileStore
    \/ WriteFile
    \/ CallLog
    \/ CallAdd
    \/ CallSave
    \/ CallCheckStore

StoreSpec == Init /\ [][StoreNext]_vars

----------------------------------------------------------------------------
(* Record(store, name) on a store, and the command: each run of the       *)
(* command opens its own store on the file                                *)

\* msg, err := Record(f, habitName): io is what becomes of the write when Save
\* is reached
CallRecordStore ==
    \E habitName \in Names \cup {""}, t2 \in Elapsed(now) :
        \E saves \in {RecordSaves(Data, nilData, habitName)} :
            \E io \in IF saves THEN WriteOutcomes ELSE {"written"} :
                \E r \in {Record(Data, nilData, file, habitName, now, t2, io)} :
                    LET call == [StoreCall("habit.Record", habitName, now, r.msg,
                                           r.err, <<>>, <<>>)
                                    EXCEPT !.io = IF saves THEN <<io>> ELSE <<>>]
                    IN  /\ \A k \in DOMAIN r.data : r.data[k].Streak <= MaxStreak
                        /\ Data' = r.data
                        /\ file' = r.file
                        /\ now' = t2
                        /\ ret' = IF r.panic THEN Panicked(call) ELSE call
                        /\ UNCHANGED <<habit, nilData, logged, others>>

\* the command lines: habit, and habit <name>
CommandLines == {<<>>} \cup {<<name>> : name \in Names \cup {""}}

\* code := runCLI(os.Stdout, os.Stderr), the program run once
CallRunCLI ==
    \E args \in CommandLines,
       readFails \in IF file = NoFile THEN {FALSE} ELSE BOOLEAN :
        LET o == NewFileStore(file, readFails)
            opened == IF o.err THEN Store(EmptyData, FALSE) ELSE o.store[1]
            reads == IF o.err THEN 0
                     ELSE IF Len(args) = 0 THEN Cardinality(DOMAIN opened.Data)
                     ELSE 2
            saves == /\ ~o.err
                     /\ Len(args) = 1
                     /\ RecordSaves(opened.Data, opened.nilData, args[1])
        IN  \E ts \in ClockReads(reads),
               io \in WriteOutcomes :
                LET r == runCLI(file, args, readFails, ts, io)
                    call == [StoreCall(IF Len(args) = 0 THEN "habit" ELSE "habit <name>",
                                       IF Len(args) = 0 THEN "" ELSE args[1],
                                       now, EmptyMsg, r.stderr, r.stdout, <<>>)
                                EXCEPT !.val = r.code,
                                       !.io = <<IF readFails THEN "unreadable"
                                                ELSE "readable">>
                                              \o IF saves THEN <<io>> ELSE <<>>]
                IN  /\ Len(args) = 1 /\ ~o.err =>
                           \A k \in DOMAIN opened.Data :
                               opened.Data[k].Streak < MaxStreak
                    /\ file' = r.file
                    /\ now' = IF reads = 0 THEN now ELSE ts[reads]
                    /\ ret' = IF r.panic THEN Panicked(call) ELSE call
                    /\ UNCHANGED <<habit, Data, nilData, logged, others>>

\* a store that is opened, and whose habits are logged and recorded
RecordNext ==
    \/ AdvanceNow
    \/ WriteFile
    \/ CallNewFileStore
    \/ CallLog
    \/ CallRecordStore

RecordSpec == Init /\ [][RecordNext]_vars

\* the command run again and again on a file that others may write
CLINext ==
    \/ AdvanceNow
    \/ WriteFile
    \/ CallRunCLI

CLISpec == Init /\ [][CLINext]_vars

----------------------------------------------------------------------------
(* One store in use: every operation the package offers on a store that  *)
(* is open, called in any order                                          *)

UseNext ==
    \/ AdvanceNow
    \/ CallAdd
    \/ CallLog
    \/ CallRecordStore
    \/ CallCheckStore
    \/ CallGet
    \/ CallGetAll
    \/ CallSave

UseSpec == Init /\ [][UseNext]_vars

----------------------------------------------------------------------------
(* One FileStore shared by goroutines: each method takes f.mu on entry and *)
(* releases it (defer) when it returns.  cs[g] is the method whose         *)
(* critical section goroutine g is inside, "" when it is inside none.      *)

Methods == {"Get", "GetAll", "Add", "Save"}

\* a store whose every method takes the read lock
LockingAllShared(method) == "RLock"

\* which side of f.mu a method takes
Locking(method) == IF method = "Add" THEN "Lock" ELSE "RLock"

\* a mutex whose Lock never returns
AcquireForReadersOnly(m, side) ==
    IF side = "Lock"
    THEN {}
    ELSE IF ~m.writer
         THEN {[m EXCEPT !.readers = @ + 1]}
         ELSE {}

\* sync.RWMutex: the states of m after Lock or RLock returns; none while the
\* call has to wait
Acquire(m, side) ==
    IF side = "Lock"
    THEN IF ~m.writer /\ m.readers = 0
         THEN {[m EXCEPT !.writer = TRUE]}
         ELSE {}
    ELSE IF ~m.writer
         THEN {[m EXCEPT !.readers = @ + 1]}
         ELSE {}

\* sync.RWMutex: the state of m after Unlock or RUnlock
Release(m, side) ==
    IF side = "Lock"
    THEN [m EXCEPT !.writer = FALSE]
    ELSE [m EXCEPT !.readers = @ - 1]

\* goroutine g calls a method and gets past its first statement, f.mu.Lock() or
\* f.mu.RLock()
Enter ==
    \E g \in Goroutines, method \in Methods :
        /\ cs[g] = ""
        /\ mu' \in Acquire(mu, Locking(method))
        /\ cs' = [cs EXCEPT ![g] = method]
        /\ UNCHANGED <<now, habit, ret, Data, nilData, file, logged, peer, wr, run>>

\* goroutine g is let out of the critical section of method
Leave(g, method) ==
    /\ cs[g] = method
    /\ mu' = Release(mu, Locking(method))
    /\ cs' = [cs EXCEPT ![g] = ""]

\* the body of Get and its return
LeaveGet ==
    \E g \in Goroutines, habitName \in Names \cup {""} :
        LET r == Get(Data, habitName)
        IN  /\ Leave(g, "Get")
            /\ ret' = StoreCall("FileStore.Get", habitName, now, EmptyMsg, ~r.ok, <<r.h>>, <<>>)
            /\ UNCHANGED <<now, habit, Data, nilData, file, logged, peer, wr, run>>

\* the body of GetAll and its return
LeaveGetAll ==
    \E g \in Goroutines :
        /\ Leave(g, "GetAll")
        /\ ret' = StoreCall("FileStore.GetAll", "", now, EmptyMsg, FALSE, GetAll(Data), <<>>)
        /\ UNCHANGED <<now, habit, Data, nilData, file, logged, peer, wr, run>>

\* the body of Add and its return
LeaveAdd ==
    \E g \in Goroutines, h \in AddedHabits :
        LET a == Add(Data, nilData, h)
            call == [StoreCall("FileStore.Add", h.Name, now, EmptyMsg, FALSE, <<>>, <<>>)
                        EXCEPT !.recv = h]
        IN  /\ Leave(g, "Add")
            /\ Data' = a.data
            /\ ret' = IF a.panic THEN Panicked(call) ELSE call
            /\ UNCHANGED <<now, habit, nilData, file, logged, peer, wr, run>>

\* the body of Save and its return
LeaveSave ==
    \E g \in Goroutines, io \in WriteOutcomes :
        LET r == Save(Data, nilData, file, io)
        IN  /\ Leave(g, "Save")
            /\ file' = r.file
            /\ ret' = StoreCall("FileStore.Save", io, now, EmptyMsg, r.err, <<>>, <<>>)
            /\ UNCHANGED <<now, habit, Data, nilData, logged, peer, wr, run>>

\* the goroutines call the methods in any order and at any pace; the clock
\* plays no part in the locking and is left where it is
LockNext ==
    \/ Enter
    \/ LeaveGet
    \/ LeaveGetAll
    \/ LeaveAdd
    \/ LeaveSave

LockSpec == Init /\ [][LockNext]_vars

----------------------------------------------------------------------------
(* Goroutines that each make one call on the shared FileStore.  A call    *)
(* waits for f.mu, runs the critical section and releases f.mu (defer).   *)
(* Log is a call of Get followed by a call of Add: it holds f.mu twice,   *)
(* and between the two it holds nothing.  The store is one that           *)
(* NewFileStore has made for a path without a file.                       *)

\* the methods a goroutine calls
Called == Methods \cup {"Log"}

\* the arguments of a call of method: a name for Get and Log, a habit that New
\* has returned for Add
Arguments(method) ==
    IF method = "Log" THEN Names \cup {""}
    ELSE IF method \in {"Get", "Add"} THEN Names
    ELSE {""}

\* goroutine g calls one of methods
GoCall(g, methods) ==
    /\ run[g].pc = "idle"
    /\ \E method \in methods : \E name \in Arguments(method) :
         run' = [run EXCEPT ![g] =
                    [NotCalled EXCEPT
                        !.pc = "called",
                        !.method = method,
                        !.sect = IF method = "Log" THEN "Get" ELSE method,
                        !.name = name,
                        !.h = IF method = "Add" THEN New(name, now).h ELSE ZeroHabit]]
    /\ UNCHANGED <<now, habit, ret, Data, nilData, file, logged, mu, cs, peer, wr>>

\* f.mu.Lock() or f.mu.RLock() returns in goroutine g
GoLock(g) ==
    /\ run[g].pc = "called"
    /\ mu' \in Acquire(mu, Locking(run[g].sect))
    /\ cs' = [cs EXCEPT ![g] = run[g].sect]
    /\ run' = [run EXCEPT ![g].pc = "in"]
    /\ UNCHANGED <<now, habit, ret, Data, nilData, file, logged, peer, wr>>

\* what Log does with the return of Get before it calls Add, t1 and t2 its
\* readings of the clock: it returns the error of New, or goes on to Add(h)
LogLocal(c, got, t1, t2) ==
    IF ~got.ok
    THEN LET n == New(c.name, t1)
         IN  IF n.err
             THEN [c EXCEPT !.pc = "done", !.sect = "", !.err = TRUE]
             ELSE LET s == HabitStart(n.h, t2)
                  IN  [c EXCEPT !.pc = "called", !.sect = "Add", !.h = s.h,
                                !.msg = s.msg, !.at = t1, !.t2 = t2]
    ELSE LET r == HabitRecord(got.h, t1, t2)
         IN  [c EXCEPT !.pc = "called", !.sect = "Add", !.h = r.h,
                       !.msg = r.msg, !.at = t1, !.t2 = t2]

\* goroutine g runs the critical section it is in and releases f.mu
GoUnlock(g) ==
    LET c == run[g]
    IN  /\ c.pc = "in"
        /\ mu' = Release(mu, Locking(c.sect))
        /\ cs' = [cs EXCEPT ![g] = ""]
        /\ \/ /\ c.sect = "Get"
              /\ c.method = "Get"
              /\ run' = [run EXCEPT ![g] =
                            [c EXCEPT !.pc = "done", !.sect = "",
                                      !.out = <<Get(Data, c.name).h>>,
                                      !.err = ~Get(Data, c.name).ok]]
              /\ UNCHANGED <<now, Data, file>>
           \/ /\ c.sect = "Get"
              /\ c.method = "Log"
              /\ \E t2 \in Elapsed(now) :
                    /\ run' = [run EXCEPT ![g] =
                                  LogLocal(c, Get(Data, c.name), now, t2)]
                    /\ now' = t2
              /\ UNCHANGED <<Data, file>>
           \/ /\ c.sect = "GetAll"
              /\ run' = [run EXCEPT ![g] =
                            [c EXCEPT !.pc = "done", !.sect = "",
                                      !.out = GetAll(Data)]]
              /\ UNCHANGED <<now, Data, file>>
           \/ /\ c.sect = "Add"
              /\ Data' = Add(Data, nilData, c.h).data
              /\ run' = [run EXCEPT ![g] = [c EXCEPT !.pc = "done", !.sect = ""]]
              /\ UNCHANGED <<now, file>>
           \/ /\ c.sect = "Save"
              /\ \E io \in WriteOutcomes :
                    LET r == Save(Data, nilData, file, io)
                    IN  /\ file' = r.file
                        /\ run' = [run EXCEPT ![g] =
                                      [c EXCEPT !.pc = "done", !.sect = "",
                                                !.err = r.err]]
              /\ UNCHANGED <<now, Data>>
        /\ UNCHANGED <<habit, ret, nilData, logged, peer, wr>>

\* a goroutine calls Log
GoCallsLog == \E g \in Goroutines : GoCall(g, {"Log"})

\* a goroutine calls any of the methods
GoCalls == \E g \in Goroutines : GoCall(g, Called)

GoLocks == \E g \in Goroutines : GoLock(g)

GoUnlocks == \E g \in Goroutines : GoUnlock(g)

\* concurrent calls of Log, the clock moving between and inside them
LogsNext ==
    \/ AdvanceNow
    \/ GoCallsLog
    \/ GoLocks
    \/ GoUnlocks

LogsSpec == Init /\ [][LogsNext]_vars

\* concurrent calls of every method
CallsNext ==
    \/ GoCalls
    \/ GoLocks
    \/ GoUnlocks

\* the calls are made from the first instant on
CallsInit == Init /\ now = 0

\* a goroutine that waits for f.mu gets it when it stays free, and a goroutine
\* inside a critical section runs it to its end
CallsSpec ==
    /\ CallsInit
    /\ [][CallsNext]_vars
    /\ \A g \in Goroutines : WF_vars(GoLock(g) \/ GoUnlock(g))

----------------------------------------------------------------------------
(* Two processes run the program on the same path, each with its own     *)
(* FileStore, peer[p].  A process opens the store, logs a habit, saves and *)
(* ends, as runCLI does.  Nothing coordinates the processes: the steps of  *)
(* os.WriteFile of one interleave with the steps of the other.             *)

\* the text of one member of the object, without the characters of its name
MemberText == "\"\":{\"name\":\"\",\"date\":\"2006-01-02T15:04:05Z\",\"streak\":1}"

RECURSIVE MembersSize(_, _)
\* the length of the members named by keys, each followed by a comma or by the
\* closing brace
MembersSize(members, keys) ==
    IF keys = {}
    THEN 0
    ELSE LET k == CHOOSE x \in keys : TRUE
         IN  Len(MemberText) + 2 * Len(k) + 1 + MembersSize(members, keys \ {k})

\* the length of the file that holds bytes
Size(bytes) ==
    IF bytes.json \in {"{...}", "{...}.."}
    THEN IF DOMAIN bytes.members = {}
         THEN Len("{}")
         ELSE Len("{") + MembersSize(bytes.members, DOMAIN bytes.members)
    ELSE Len(bytes.json)

\* file.Write(data) at offset 0 of a file that holds old: the bytes of old
\* beyond the length of data stay, and the file is then an object followed by
\* the end of a longer text (members keeps those of the longer text, for its
\* length)
Write(old, new) ==
    IF Size(new) >= Size(old)
    THEN new
    ELSE [json |-> "{...}..", members |-> old.members]

\* where a process is in its run
Idle == [pc |-> "idle", bytes |-> <<>>]
At(pc) == [pc |-> pc, bytes |-> <<>>]
Writing(bytes) == [pc |-> "writing", bytes |-> <<bytes>>]

\* process p starts: store, err := NewFileStore(path); it ends at once when
\* that fails
ProcessOpens ==
    \E p \in Processes :
        LET r == NewFileStore(file, FALSE)
        IN  /\ wr[p] = Idle
            /\ peer' = [peer EXCEPT ![p] = r.store]
            /\ wr' = [wr EXCEPT ![p] = IF r.err THEN Idle ELSE At("opened")]
            /\ ret' = StoreCall("NewFileStore", p, now, EmptyMsg, r.err, r.store, <<>>)
            /\ UNCHANGED <<now, habit, Data, nilData, file, logged, mu, cs, run>>

\* process p, in Record: msg, err := s.Log(habitName); a process that panics
\* ends
ProcessLogs ==
    \E p \in Processes, habitName \in Names, t2 \in Elapsed(now) :
        /\ wr[p] = At("opened")
        /\ \E r \in {Log(peer[p][1].Data, peer[p][1].nilData, habitName, now, t2)} :
            LET call == StoreCall("FileStore.Log", habitName, now, r.msg, r.err, <<>>, <<>>)
            IN  /\ \A k \in DOMAIN r.data : r.data[k].Streak <= MaxStreak
                /\ peer' = [peer EXCEPT ![p] =
                               IF r.panic THEN <<>>
                               ELSE <<Store(r.data, peer[p][1].nilData)>>]
                /\ now' = t2
                /\ wr' = [wr EXCEPT ![p] = IF r.panic THEN Idle ELSE At("logged")]
                /\ ret' = IF r.panic THEN Panicked(call) ELSE call
        /\ UNCHANGED <<habit, Data, nilData, file, logged, mu, cs, run>>

\* process p, in Record: s.Save() as far as os.WriteFile has opened the file,
\* which creates it or cuts it to no bytes
ProcessSaveOpens ==
    \E p \in Processes :
        /\ wr[p] = At("logged")
        /\ wr' = [wr EXCEPT ![p] = Writing(ToJSON(peer[p][1].Data, peer[p][1].nilData))]
        /\ file' = <<NoBytes>>
        /\ ret' = NoCall
        /\ UNCHANGED <<now, habit, Data, nilData, logged, mu, cs, peer, run>>

\* process p: the rest of s.Save(), os.WriteFile writes the bytes and Save
\* returns; the process ends
ProcessSaveWrites ==
    \E p \in Processes :
        /\ wr[p].pc = "writing"
        /\ file' = <<Write(file[1], wr[p].bytes[1])>>
        /\ wr' = [wr EXCEPT ![p] = Idle]
        /\ peer' = [peer EXCEPT ![p] = <<>>]
        /\ ret' = StoreCall("FileStore.Save", p, now, EmptyMsg, FALSE, <<>>, <<>>)
        /\ UNCHANGED <<now, habit, Data, nilData, logged, mu, cs, run>>

RaceNext ==
    \/ ProcessOpens
    \/ ProcessLogs
    \/ ProcessSaveOpens
    \/ ProcessSaveWrites

RaceSpec == Init /\ [][RaceNext]_vars

----------------------------------------------------------------------------
(* Add called with any Habit value: the fields of Habit are exported, and *)
(* Add stores the value it is given                                       *)

\* the values a caller passes to Add: the returns of New, and Habit{}
HabitValues == AddedHabits \cup {ZeroHabit}

\* f.Add(h), h any Habit value
CallAddValue ==
    \E h \in HabitValues :
        LET a == Add(Data, nilData, h)
            call == [StoreCall("FileStore.Add", h.Name, now, EmptyMsg, FALSE, <<>>, <<>>)
                        EXCEPT !.recv = h]
        IN  /\ Data' = a.data
            /\ ret' = IF a.panic THEN Panicked(call) ELSE call
            /\ UNCHANGED <<now, habit, nilData, file, logged, others>>

NameNext ==
    \/ AdvanceNow
    \/ CallAddValue
    \/ CallLog

NameSpec == Init /\ [][NameNext]_vars

----------------------------------------------------------------------------
(* A store opened from a file that someone else has written with a JSON  *)
(* object of habits: json.Unmarshal fills the map with the members as    *)
(* they are, whatever name each of them carries                          *)

\* the JSON objects whose keys are among Names and whose members are habits
\* as New makes them
Objects ==
    {JSONObject(m) :
        m \in UNION {[K -> {MarshalHabit(New(n, now).h) : n \in Names}] :
                        K \in SUBSET Names}}

\* the file is written by someone else with an object of habits
WriteObject ==
    \E bytes \in Objects :
        /\ file # <<bytes>>
        /\ file' = <<bytes>>
        /\ ret' = NoCall
        /\ UNCHANGED <<now, habit, Data, nilData, logged, others>>

KeyNext ==
    \/ AdvanceNow
    \/ WriteObject
    \/ CallNewFileStore
    \/ CallLog

KeySpec == Init /\ [][KeyNext]_vars

----------------------------------------------------------------------------
(* The reading operations of a FileStore that is opened and whose habits *)
(* are logged                                                            *)

ReadNext ==
    \/ AdvanceNow
    \/ WriteFile
    \/ CallNewFileStore
    \/ CallLog
    \/ CallGet
    \/ CallGetAll

ReadSpec == Init /\ [][ReadNext]_vars

----------------------------------------------------------------------------
(* FileStore.Log with the history of the days on which each habit was logged *)

\* msg, err := f.Log(habitName), called on the day of the clock
CallLogOnDay ==
    \E habitName \in Names \cup {""}, t2 \in Elapsed(now) :
        /\ LogStep(habitName, t2)
        /\ logged' = IF habitName \in Names
                     THEN [logged EXCEPT ![habitName] = @ \cup {Day(now)}]
                     ELSE logged
        /\ UNCHANGED <<habit, nilData, file, others>>

LogNext ==
    \/ AdvanceNow
    \/ CallLogOnDay

LogSpec == Init /\ [][LogNext]_vars

\* the same calls under a clock that is set to any instant, earlier ones
\* included
ClockNext ==
    \/ SetNow
    \/ CallLogOnDay

ClockSpec == Init /\ [][ClockNext]_vars



----------------------------------------------------------------------------
(* Properties of the Habit API, under Spec *)

\* the day distance the last call computed when it was entered
EntryDiff == DayDiff(ret.recv.Date, ret.at)

\* C1: a Record at any instant of the habit's last logged day leaves Streak and
\* Date as they were and returns the current Streak with the empty message,
\* after any history of calls (so also when it is repeated).
C1_SameDayRecordChangesNothing ==
    (ret.op = "Record" /\ EntryDiff = 0) =>
        /\ habit = ret.recv
        /\ ret.val = ret.recv.Streak
        /\ ret.msg = EmptyMsg

\* a Record later on the last logged day has returned, the streak being longer than 1
C1_Witness ==
    /\ ret.op = "Record"
    /\ EntryDiff = 0
    /\ ret.at > ret.recv.Date
    /\ ret.recv.Streak >= 2

C5_StreakAtLeastOne ==
    habit.Name # "" => habit.Streak >= 1

\* a Record has reset the streak of a habit
C5_Witness ==
    /\ ret.op = "Record"
    /\ ret.recv.Streak >= 2
    /\ habit.Streak = 1

\* C6: the Date of a habit is always midnight of a calendar day: no time of day
\* is stored by New, Start or Record.
C6_DateIsDayTruncated ==
    habit.Date % TicksPerDay = 0

\* Start or Record has written the Date while the clock showed a time of day
C6_Witness ==
    /\ ret.op \in {"Start", "Record"}
    /\ now % TicksPerDay # 0
    /\ habit.Date # ret.recv.Date
    /\ habit.Date = RoundDateToDay(now)

\* C8: Check returns the day distance as its first value in both branches; for
\* a distance of 0 or 1 the message is the "currently on a streak" message
\* carrying Streak, for a larger one the "it's been N days" message carrying
\* the distance.
C8_CheckReportsDistance ==
    ret.op = "Check" =>
        /\ ret.val = EntryDiff
        /\ EntryDiff \in {0, 1} =>
               ret.msg = MsgOnStreak(ret.recv.Streak, ret.recv.Name)
        /\ EntryDiff > 1 =>
               ret.msg = MsgItsBeen(EntryDiff, ret.recv.Name)

\* Check has reported an intact streak whose length differs from the distance
C8_Witness ==
    /\ ret.op = "Check"
    /\ EntryDiff = 1
    /\ ret.recv.Streak = 3
    /\ ret.msg.n = 3

\* C9: Start sets Date to the current day and Streak to 1 whatever they were,
\* and returns the "new habit" message naming the habit.
C9_StartRestarts ==
    ret.op = "Start" =>
        /\ habit = [Name |-> ret.recv.Name, Date |-> RoundDateToDay(ret.at),
                    Streak |-> 1]
        /\ ret.msg = MsgStart(ret.recv.Name)

\* Start has restarted a habit with a longer streak, logged today
C9_Witness ==
    /\ ret.op = "Start"
    /\ ret.recv.Streak >= 2
    /\ DayDiff(ret.recv.Date, ret.at) = 0
    /\ habit.Streak = 1

\* C10: New with the empty name returns an error and the zero Habit, and no
\* store is touched; with another name it returns, without error, a habit of
\* that Name, Date the current day and Streak 1.
C10_NewValidatesName ==
    ret.op = "New" =>
        /\ Data = EmptyData /\ file = NoFile
        /\ IF ret.arg = ""
           THEN ret.err /\ habit = ZeroHabit
           ELSE /\ ~ret.err
                /\ habit = [Name |-> ret.arg, Date |-> RoundDateToDay(ret.at),
                            Streak |-> 1]

\* New has refused the empty name
C10_Witness ==
    /\ ret.op = "New"
    /\ ret.arg = ""
    /\ ret.err

----------------------------------------------------------------------------
(* Properties of FileStore.Log, under LogSpec *)

Max(S) == CHOOSE x \in S : \A y \in S : y <= x

\* the number of consecutive days of S that end at day d
RECURSIVE RunEndingAt(_, _)
RunEndingAt(S, d) == IF d \in S THEN 1 + RunEndingAt(S, d - 1) ELSE 0

\* C4: from the empty store and with a clock that never goes back, after any
\* sequence of Log calls a name is stored exactly if it was logged, its stored
\* Date is the most recent day on which Log(name) was called, and its stored
\* Streak is the length of the run of consecutive logged days ending at that
\* Date.
C4_StreakIsRunOfLoggedDays ==
    \A n \in Names :
        /\ (n \in DOMAIN Data) = (logged[n] # {})
        /\ n \in DOMAIN Data =>
               /\ Day(Data[n].Date) = Max(logged[n])
               /\ Data[n].Streak = RunEndingAt(logged[n], Day(Data[n].Date))

----------------------------------------------------------------------------
(* Properties of the store, under StoreSpec *)

\* C7: Check(store), and each Habit.Check it makes, changes nothing: the
\* receiver of every Habit.Check is after the call the habit that was stored,
\* and the collection and the backing file are as before.
C7_CheckChangesNothing ==
    [][ret'.op = "habit.Check" =>
          /\ ret'.seen = GetAll(Data)
          /\ Data' = Data
          /\ file' = file]_vars

\* Check has reported on two habits, one of them with a broken streak, the
\* store having been saved before
C7_Witness ==
    /\ ret.op = "habit.Check"
    /\ Len(ret.seen) = 2
    /\ ret.out[1] = MsgItsBeen(2, "jog")
    /\ file # NoFile
    /\ file # <<ToJSON(Data, nilData)>>

\* C11: Log(name) for a name that is not empty and not in the collection adds
\* an entry for name with Streak 1 and Date the day the clock shows when the
\* date is written, and returns the "new habit" message and no error.
C11_LogStartsAbsentHabit ==
    [][(/\ ret'.op = "FileStore.Log"
        /\ ret'.arg # ""
        /\ ret'.arg \notin DOMAIN Data) =>
          /\ ~ret'.panic
          /\ ~ret'.err
          /\ ret'.msg = MsgStart(ret'.arg)
          /\ ret'.arg \in DOMAIN Data'
          /\ Data'[ret'.arg] = [Name |-> ret'.arg, Date |-> RoundDateToDay(now'),
                                Streak |-> 1]]_vars

\* the distance in days between the stored Date of the habit that Log is called
\* for and the clock when the call is entered
LogDiff == DayDiff(Data[ret'.arg].Date, now)

C13_AddAndLogLeaveTheFile ==
    [][ret'.op \in {"FileStore.Add", "FileStore.Log"} => file' = file]_vars

\* after a Save of the empty collection, Log has made a streak and Add has then
\* replaced an entry, the file still holding the empty collection
C13_Witness ==
    /\ ret.op = "FileStore.Add"
    /\ DOMAIN Data = Names
    /\ \E n \in Names : Data[n].Streak >= 2
    /\ file = <<ToJSON(EmptyData, FALSE)>>

\* C14: Add(h) is an upsert keyed by h.Name: afterwards the collection has an
\* entry for h.Name and it equals h, whatever was stored under that name, and
\* the number of entries has grown by one if the name was absent and not at
\* all if it was present.
C14_AddUpserts ==
    [][ret'.op = "FileStore.Add" =>
          LET h == ret'.recv
          IN  /\ ~ret'.panic
              /\ h.Name \in DOMAIN Data'
              /\ Data'[h.Name] = h
              /\ Cardinality(DOMAIN Data') =
                     Cardinality(DOMAIN Data) +
                         (IF h.Name \in DOMAIN Data THEN 0 ELSE 1)]_vars

\* C17: NewFileStore(path) where no file exists returns no error and a store
\* whose collection is empty, and does not create the file.
C17_NewFileStoreWithoutFile ==
    [][(ret'.op = "NewFileStore" /\ file = NoFile) =>
          /\ ~ret'.err
          /\ ret'.out = <<Store(EmptyData, FALSE)>>
          /\ Data' = EmptyData
          /\ file' = NoFile]_vars

\* a store has been opened on a path without a file, on a later day than the
\* first
C17_Witness ==
    /\ ret.op = "NewFileStore"
    /\ ~ret.err
    /\ file = NoFile
    /\ Data = EmptyData
    /\ now >= TicksPerDay

\* the bytes that json.Unmarshal cannot parse into a map of habits
Unparsable == {InvalidData, JSONArray, TornBytes}

\* C18: NewFileStore(path) on an existing file that cannot be read, or whose
\* content cannot be parsed into a mapping from names to habits, returns an
\* error and no store, and leaves the file as it was.
C18_NewFileStoreRejectsBadFile ==
    [][(/\ ret'.op = "NewFileStore"
        /\ file # NoFile
        /\ (ret'.arg = "unreadable" \/ file[1] \in Unparsable)) =>
          /\ ret'.err
          /\ ret'.out = <<>>
          /\ Data' = Data
          /\ file' = file]_vars

\* opening a readable file of invalid data has failed, the caller holding a
\* store with a habit
C18_Witness ==
    /\ ret.op = "NewFileStore"
    /\ ret.arg = "readable"
    /\ ret.err
    /\ file = <<InvalidData>>
    /\ Data # EmptyData

C20_SaveWritesNullForEmpty ==
    (ret.op = "FileStore.Save" /\ ~ret.err /\ Data = EmptyData) =>
        file = <<JSONNull>>

\* C21: a store opened from a file that holds the text null is as one opened
\* from {}: it has no habits, and a following Add, or Log of a name, succeeds
\* and leaves exactly that habit in the collection.
C21_NullFileStoreIsEmptyStore ==
    [][(/\ nilData
        /\ ret'.op \in {"FileStore.Add", "FileStore.Log"}
        /\ ret'.arg # "") =>
          /\ GetAll(Data) = <<>>
          /\ ~ret'.panic
          /\ ~ret'.err
          /\ DOMAIN Data' = {ret'.arg}]_vars

\* C22: Save is all or nothing: after every Save, whether it returns an error
\* or not, the file holds the complete encoding of the collection or exactly
\* what it held before; it is never cut short.
C22_SaveIsAllOrNothing ==
    [][ret'.op = "FileStore.Save" =>
          \/ file' = <<ToJSON(Data, nilData)>>
          \/ file' = file]_vars

\* C23: Check(store) returns the line "You are not tracking any habit yet."
\* when the collection is empty, and otherwise one message of Habit.Check for
\* each habit of the collection and no other, in ascending order of the names,
\* each made at a clock reading of the call.
C23_CheckReportsEveryHabit ==
    [][ret'.op = "habit.Check" =>
          LET out == ret'.out
          IN  IF DOMAIN Data = {}
              THEN out = <<MsgNotTracking>>
              ELSE /\ Len(out) = Cardinality(DOMAIN Data)
                   /\ \A i \in 1..Len(out) :
                          /\ out[i].name \in DOMAIN Data
                          /\ \E t \in ret'.at..now' :
                                 out[i] = HabitCheck(Data[out[i].name], t).msg
                   /\ \A i \in 1..Len(out) : \A j \in 1..Len(out) :
                          i < j => NameLess(out[i].name, out[j].name)]_vars

\* Check has reported on two habits, the first on a streak and the second with
\* a broken one
C23_Witness ==
    /\ ret.op = "habit.Check"
    /\ ret.out = <<MsgOnStreak(2, "jog"), MsgItsBeen(2, "read")>>

----------------------------------------------------------------------------
(* Properties of the reading operations, under ReadSpec *)

----------------------------------------------------------------------------
(* Properties of Record, under RecordSpec *)

C25_RecordLogsOnceAndSaves ==
    [][(ret'.op = "habit.Record" /\ ~ret'.err /\ ~ret'.panic) =>
          LET l == Log(Data, nilData, ret'.arg, now, now')
          IN  /\ Data' = l.data
              /\ ret'.msg = l.msg
              /\ ret'.arg \in DOMAIN Data'
              /\ file' # NoFile
              /\ ~FromJSON(file'[1]).err
              /\ FromJSON(file'[1]).data = Data']_vars

\* the same-day case: Record has returned no message and no error, and the file
\* that did not hold the collection before holds it now
C25_Witness ==
    /\ ret.op = "habit.Record"
    /\ ~ret.err
    /\ ret.msg = EmptyMsg
    /\ Cardinality(DOMAIN Data) = 2
    /\ file = <<ToJSON(Data, FALSE)>>

----------------------------------------------------------------------------
(* Properties of the command, under CLISpec *)

\* C26: a run of the command returns 0 when the request succeeds (the store
\* opens, the name if there is one is not empty, and the write succeeds) and a
\* non-zero code when the file cannot be read or decoded, the name is empty or
\* the write fails; with a non-zero code nothing is written to standard output.
C26_ExitCodeTellsSuccess ==
    [][ret'.op \in {"habit", "habit <name>"} =>
          LET opens == \/ file = NoFile
                       \/ ret'.io[1] = "readable" /\ file[1] \notin Unparsable
              named == ret'.op = "habit <name>"
              failure == \/ ~opens
                         \/ named /\ ret'.arg = ""
                         \/ Len(ret'.io) = 2 /\ ret'.io[2] # "written"
          IN  /\ failure => ret'.val # 0
              /\ ~failure => ret'.val = 0 /\ ~ret'.panic
              /\ ret'.val # 0 => ret'.out = <<>>]_vars

----------------------------------------------------------------------------
(* Properties of the lock of a shared FileStore, under LockSpec *)

\* the goroutines inside the critical section of a method
Inside(method) == {g \in Goroutines : cs[g] = method}

\* C27: while a goroutine is inside the critical section of Add, no other
\* goroutine is inside the critical section of Get, GetAll, Save or Add; Get
\* and GetAll are inside theirs at the same time in some reachable state.
C27_AddIsExclusive ==
    \A g \in Inside("Add") : \A other \in Goroutines \ {g} : cs[other] = ""

\* after an Add has returned, one goroutine is inside Get while another is
\* inside GetAll
C27_Witness ==
    /\ ret.op = "FileStore.Add"
    /\ Inside("Get") # {}
    /\ Inside("GetAll") # {}
    /\ mu.readers = 2

\* C28: while a goroutine is inside the critical section of Save, no other
\* goroutine is inside the critical section of Get, GetAll, Add or Save.
C28_SaveIsExclusive ==
    \A g \in Inside("Save") : \A other \in Goroutines \ {g} : cs[other] = ""

----------------------------------------------------------------------------
(* Properties of two processes on one file, under RaceSpec *)

\* C29: when a process returns from Save while the other is not in the middle
\* of one, Save reports no error and the file holds exactly the collection of
\* that process, the one that saved last, whatever the other process wrote.
C29_LastSaverWins ==
    [][\A p \in Processes :
          (/\ wr[p].pc = "writing"
           /\ \A q \in Processes : wr'[q].pc # "writing") =>
              /\ ~ret'.err
              /\ file' = wr[p].bytes
              /\ file' = <<ToJSON(peer[p][1].Data, peer[p][1].nilData)>>]_vars

----------------------------------------------------------------------------
(* Properties of a store in use, under UseSpec *)

\* C30: no call of Add, Log, Record, Check, Get, GetAll or Save takes a name
\* out of the in-memory collection: every habit that is there stays there under
\* its name, with a streak of at least one, and can be logged again without
\* error.
C30_NoOperationRemovesAHabit ==
    [][/\ DOMAIN Data \subseteq DOMAIN Data'
       /\ \A k \in DOMAIN Data :
              /\ Data'[k].Name = Data[k].Name
              /\ Data'[k].Streak >= 1
       /\ (ret'.op = "FileStore.Log" /\ ret'.arg \in DOMAIN Data) =>
              ~ret'.err /\ ~ret'.panic]_vars

\* a habit whose streak was broken is started again by Record while the other
\* habit, untouched for days, is still in the collection
C30_Witness ==
    /\ ret.op = "habit.Record"
    /\ ret.msg = MsgNewStreak(ret.arg, ret.msg.n)
    /\ ret.msg.n >= 2
    /\ DOMAIN Data = Names
    /\ \A k \in Names : Data[k].Name = k

----------------------------------------------------------------------------
(* Properties of a store opened from any object of habits, under KeySpec *)

\* C31: Log(name) changes at most the entry for name: every other entry of the
\* collection is after the call what it was before, and no entry other than
\* that of name is added.
C31_LogChangesOnlyItsEntry ==
    [][ret'.op = "FileStore.Log" =>
          /\ DOMAIN Data' \subseteq DOMAIN Data \cup {ret'.arg}
          /\ \A k \in DOMAIN Data \ {ret'.arg} :
                 /\ k \in DOMAIN Data'
                 /\ Data'[k].Name = Data[k].Name
                 /\ Data'[k].Date = Data[k].Date
                 /\ Data'[k].Streak = Data[k].Streak]_vars

\* C34: every entry of the collection is stored under the Name of its habit,
\* also in a store opened from a file that holds any JSON object of habits.
C34_KeysAreNames ==
    \A k \in DOMAIN Data : Data[k].Name = k

----------------------------------------------------------------------------
(* Properties of the day distance, under DiffSpec *)

\* the habit whose Date is as many days before the day of t as the Date of h
\* is after it, or the reverse
Mirrored(h, t) == [h EXCEPT !.Date = 2 * RoundDateToDay(t) - h.Date]

\* C32: DayDiff depends only on the UTC days of its two instants: it is the
\* absolute distance of the two days, the same in both orders, 0 within one
\* day and 1 on adjacent days however few ticks apart; and Check and Record,
\* called on a habit whose Date is N days after today, return and leave what
\* they return and leave for the same habit with a Date N days before today.
C32_DayDiffIsAbsoluteDayDistance ==
    /\ ret.op = "DayDiff" =>
          /\ ret.val = Abs(Day(now) - Day(ret.at))
          /\ ret.val = DayDiff(now, ret.at)
          /\ Day(now) = Day(ret.at) => ret.val = 0
          /\ Abs(now - ret.at) = 1 /\ Day(now) # Day(ret.at) => ret.val = 1
    /\ ret.op = "Check" =>
          /\ ret.val = Abs(Day(ret.at) - Day(ret.recv.Date))
          /\ ret.msg = HabitCheck(Mirrored(ret.recv, ret.at), ret.at).msg
    /\ ret.op = "Record" =>
          /\ ret.msg = HabitRecord(Mirrored(ret.recv, ret.at), ret.at, now).msg
          /\ ret.val = HabitRecord(Mirrored(ret.recv, ret.at), ret.at, now).val
          /\ habit # ret.recv =>
                habit = HabitRecord(Mirrored(ret.recv, ret.at), ret.at, now).h

\* Record has restarted the streak of a habit whose Date was two days or more
\* after the day of the call
C32_FutureDateRecorded ==
    /\ ret.op = "Record"
    /\ Day(ret.recv.Date) >= Day(ret.at) + 2
    /\ ret.recv.Streak >= 2
    /\ habit.Streak = 1
    /\ habit.Date = RoundDateToDay(now)

----------------------------------------------------------------------------
(* Properties of the names in a store, under NameSpec *)

\* C33: after any sequence of Add, Log and Record on a store that was empty,
\* no entry of the collection has the empty key or holds a habit with the
\* empty Name.
C33_NoEntryHasEmptyName ==
    \A k \in DOMAIN Data : k # "" /\ Data[k].Name # ""

----------------------------------------------------------------------------
(* The two clock readings of Record, under Spec *)

\* C35: a Record that changes the habit writes as its Date the UTC day of the
\* clock reading from which it computed the day distance, also when the call
\* runs across midnight.
C35_RecordDatesTheDayItCompared ==
    [][ret'.op = "Record" /\ habit' # habit =>
          habit'.Date = RoundDateToDay(ret'.at)]_vars

----------------------------------------------------------------------------
(* The streak and the days of the calls, under ClockSpec *)

\* C38: whatever the clock does between the calls of Log, the Streak of a
\* stored habit is at most the number of distinct UTC days on which Log was
\* called with its name.
C38_StreakCountsDistinctDays ==
    \A n \in DOMAIN Data : Data[n].Streak <= Cardinality(logged[n])

----------------------------------------------------------------------------
(* Opening a file of length zero, under StoreSpec *)

\* C39: NewFileStore on a file that exists, can be read and has length zero
\* returns no error and a store with an empty collection, and an Add or a Log
\* of a name that follows on that store does not panic and leaves the name in
\* the collection.
C39_EmptyFileOpensEmptyStore ==
    [][/\ ret'.op = "NewFileStore" /\ ret'.arg = "readable" /\ file = <<NoBytes>> =>
            /\ ~ret'.err
            /\ Data' = EmptyData
            /\ ~nilData'
       /\ /\ ret.op = "NewFileStore"
          /\ ret.arg = "readable"
          /\ file = <<NoBytes>>
          /\ ret'.op \in {"FileStore.Add", "FileStore.Log"}
          /\ ret'.arg \in Names
          => /\ ~ret'.panic
             /\ ~ret'.err
             /\ DOMAIN Data' = {ret'.arg}
             /\ Data'[ret'.arg].Streak = 1]_vars

\* NewFileStore has returned a store for a readable file of length zero
C39_EmptyFileOpened ==
    /\ file = <<NoBytes>>
    /\ ret.op = "NewFileStore"
    /\ ret.arg = "readable"
    /\ ~ret.err
    /\ ret.out = <<Store(EmptyData, FALSE)>>
    /\ Data = EmptyData

----------------------------------------------------------------------------
(* Properties of concurrent calls on one FileStore, under CallsSpec and  *)
(* LogsSpec                                                              *)

\* the goroutines whose call is at pc
Callers(pc) == {g \in Goroutines : run[g].pc = pc}

\* C37: a goroutine that asks for f.mu holds nothing of it, f.mu is held by
\* the goroutines inside a critical section and by nobody else (so it is free
\* when every call has returned), and every call of Get, GetAll, Add, Log or
\* Save that a goroutine has made returns.
C37_EveryCallReturns ==
    /\ [](/\ \A g \in Callers("called") \cup Callers("idle") \cup Callers("done") : cs[g] = ""
          /\ mu.readers = Cardinality({g \in Goroutines : cs[g] \in Methods \ {"Add"}})
          /\ mu.writer = (Inside("Add") # {}))
    /\ \A g \in Goroutines :
          (run[g].pc \in {"called", "in"}) ~> (run[g].pc = "done")

\* three calls, a Log and an Add among them, have all returned
C37_AllReturned ==
    /\ Callers("done") = Goroutines
    /\ \E g \in Goroutines : run[g].method = "Log" /\ ~run[g].err
    /\ \E g \in Goroutines : run[g].method = "Add"
    /\ mu = Unlocked

\* the orders in which the goroutines can be put one after the other
Orders ==
    {o \in [1..Cardinality(Goroutines) -> Goroutines] :
        \A i, j \in DOMAIN o : o[i] = o[j] => i = j}

RECURSIVE LogsOneByOne(_, _)
\* whether the calls of Log made by the goroutines of order, run one after the
\* other on data with the clock readings each of them had, return what they
\* have returned and leave the collection as it is now
LogsOneByOne(data, order) ==
    IF order = <<>>
    THEN data = Data
    ELSE LET c == run[Head(order)]
         IN  \E r \in {Log(data, nilData, c.name, c.at, c.t2)} :
                /\ r.msg = c.msg
                /\ r.err = c.err
                /\ LogsOneByOne(r.data, Tail(order))

\* C36: when the calls of Log that goroutines have made on one store at the
\* same time have all returned, the messages they returned and the collection
\* they left are those of the same calls made one after the other in some
\* order.
C36_ConcurrentLogsLinearize ==
    Callers("done") = Goroutines =>
        \E order \in Orders : LogsOneByOne(EmptyData, order)

====
